---------------------------- MODULE Spec2Model ----------------------------
(***************************************************************************)
(* A model of the citeproc preprocessor (src/src/main.rs):                 *)
(* handle_preprocessing and Pandoc::run.  One run reads a preprocessor     *)
(* config table and a book, compiles the pandoc `from`/`to` arguments,     *)
(* resolves the bibliography configuration, and pipes every chapter        *)
(* through a pandoc subprocess.                                            *)
(*                                                                         *)
(* Option<T> values are sequences of length at most one: <<>> is None and  *)
(* <<v>> is Some(v).  A Rust String is a TLA+ string where it is only      *)
(* concatenated and compared (flags, keys, paths) and a sequence of code   *)
(* points where it is encoded to or decoded from bytes (chapter content).  *)
(***************************************************************************)
EXTENDS Integers, Sequences, FiniteSets, TLC

VARIABLES
    table,                 \* ctx.config.get_preprocessor("citeproc"): Option<Table>
    inBook,                \* the book CmdPreprocessor::parse_input returned
    book,                  \* `mut book` of Pandoc::run
    pc,                    \* position of the run
    idx,                   \* index (in traversal order) of the item for_each_mut visits
    from,                  \* `from` of Pandoc::run
    to,                    \* `to` of Pandoc::run
    config,                \* `config: PandocConfig`
    bibliography_config,   \* Option<BibliographyConfig>
    procs,                 \* every pandoc subprocess spawned so far, oldest first
    output,                \* `output.stdout` of the last wait_with_output
    panicMsg,              \* Option<String>: the message of the panic that ended the run
    stdout,                \* Option<Book>: what the adapter wrote to its standard output
    exitCode,              \* Option<Int>: the exit status of the adapter process
    wpos,                  \* write_all: bytes of the chapter already written to the pipe
    stdinPipe,             \* bytes in the child's stdin pipe, not yet read by the child
    stdoutPipe,            \* bytes in the child's stdout pipe, not yet read by the adapter
    rbuf,                  \* wait_with_output: the bytes read from the child's stdout so far
    conv                   \* the converter's own state in the byte-level pipe model

vars == << table, inBook, book, pc, idx, from, to, config, bibliography_config,
           procs, output, panicMsg, stdout, exitCode, wpos, stdinPipe, stdoutPipe, rbuf, conv >>

runVars == << table, inBook, book, pc, idx, from, to, config, bibliography_config,
              procs, output, panicMsg, stdout, exitCode >>

pipeVars == << wpos, stdinPipe, stdoutPipe, rbuf, conv >>

---------------------------------------------------------------------------
(* Bounds of the model. *)

\* most feature keys a generated config table mentions
MaxMentioned == 2
\* most items of a generated book
MaxItems == 2
\* capacity, in bytes, of each of the two pipes of a subprocess
PipeCap == 1

---------------------------------------------------------------------------
(* Config values: toml::Value.  Only the variant decides as_str().         *)

Str(s) == [kind |-> "String", str |-> s]

NonStr(k) == [kind |-> k, str |-> ""]

\* Value::as_str
as_str(v) == IF v.kind = "String" THEN << v.str >> ELSE << >>

\* Table::get
table_get(t, key) == IF key \in DOMAIN t THEN << t[key] >> ELSE << >>

\* the feature names, in the order Pandoc::run passes them to parse_setting
FeatureOrder ==
    << "backtick_code_blocks", "bracketed_spans", "citations", "definition_lists",
       "emoji", "fenced_code_attributes", "fenced_code_blocks", "fenced_divs",
       "footnotes", "hard_line_breaks", "inline_notes", "mark",
       "markdown_in_html_blocks", "link_attributes" >>

\* the same names in the key order of the table (alphabetical): not the order used
AlphabeticalOrder ==
    << "backtick_code_blocks", "bracketed_spans", "citations", "definition_lists",
       "emoji", "fenced_code_attributes", "fenced_code_blocks", "fenced_divs",
       "footnotes", "hard_line_breaks", "inline_notes", "link_attributes", "mark",
       "markdown_in_html_blocks" >>

FeatureNames == { FeatureOrder[i] : i \in 1..Len(FeatureOrder) }

EmptyConfig == [ k \in {} |-> "Preserve" ]

\* config.get_mut(setting) / config.insert(setting, new_value)
config_set(c, setting, new_value) ==
    [ k \in (DOMAIN c) \cup {setting} |-> IF k = setting THEN new_value ELSE c[k] ]

InvalidSettingMsg(setting) ==
    setting \o " must be either \"transpile\" or \"preserve\""

\* the state the closure parse_setting works on, before the first call
ParseStart ==
    [ from |-> "--from=markdown_strict", to |-> "--to=markdown_strict",
      config |-> EmptyConfig, panic |-> << >> ]

\* the match of parse_setting with a non-string value rejected like any other value
resolve_nonstring_rejected(st, setting, s) ==
    IF s = << "transpile" >> THEN
        [ st EXCEPT !.to = @ \o "-" \o setting,
                    !.config = config_set(@, setting, "Transpile") ]
    ELSE IF s = << "preserve" >> THEN
        [ st EXCEPT !.to = @ \o "+" \o setting,
                    !.config = config_set(@, setting, "Preserve") ]
    ELSE
        [ st EXCEPT !.panic = << InvalidSettingMsg(setting) >> ]

\* the match of parse_setting with the empty string resolved to the default
resolve_empty_is_default(st, setting, s) ==
    IF s = << "transpile" >> THEN
        [ st EXCEPT !.to = @ \o "-" \o setting,
                    !.config = config_set(@, setting, "Transpile") ]
    ELSE IF s = << "preserve" >> \/ s = << >> \/ s = << "" >> THEN
        [ st EXCEPT !.to = @ \o "+" \o setting,
                    !.config = config_set(@, setting, "Preserve") ]
    ELSE
        [ st EXCEPT !.panic = << InvalidSettingMsg(setting) >> ]

\* `match option.as_str()` of parse_setting, with the config update after it;
\* s is option.as_str()
resolve(st, setting, s) ==
    IF s = << "transpile" >> THEN
        [ st EXCEPT !.to = @ \o "-" \o setting,
                    !.config = config_set(@, setting, "Transpile") ]
    ELSE IF s = << "preserve" >> THEN
        [ st EXCEPT !.to = @ \o "+" \o setting,
                    !.config = config_set(@, setting, "Preserve") ]
    ELSE IF s = << >> THEN
        [ st EXCEPT !.to = @ \o "+" \o setting,
                    !.config = config_set(@, setting, "Preserve") ]
    ELSE
        [ st EXCEPT !.panic = << InvalidSettingMsg(setting) >> ]

\* one call of the closure parse_setting; nothing runs after a panic
parse_setting(t, st, setting) ==
    IF st.panic # << >> THEN st
    ELSE LET option == table_get(t, setting) IN
         IF option = << >> THEN st
         ELSE resolve([ st EXCEPT !.from = @ \o "+" \o setting ],
                      setting, as_str(option[1]))

RECURSIVE parse_from(_, _, _, _)
parse_from(t, st, order, i) ==
    IF i > Len(order) THEN st
    ELSE parse_from(t, parse_setting(t, st, order[i]), order, i + 1)

\* the fourteen calls made in table-key order instead of the written order
parse_settings_alphabetical(t) == parse_from(t, ParseStart, AlphabeticalOrder, 1)

\* the fourteen calls of parse_setting
parse_settings(t) == parse_from(t, ParseStart, FeatureOrder, 1)

BibliographyMsg ==
    "citations set to transpile so bibliography-style and bibliography option must be provided!"

NoTableMsg == "No config table for " \o "citeproc" \o " preprocessor"

\* BibliographyConfig::new with the two fields exchanged
BibliographyConfig_swapped(bibliography, bibliography_style) ==
    [ bibliography |-> bibliography_style, bibliography_style |-> bibliography ]

\* BibliographyConfig::new
BibliographyConfig_new(bibliography, bibliography_style) ==
    [ bibliography |-> bibliography, bibliography_style |-> bibliography_style ]

\* table.get(key).and_then(|x| x.as_str())
get_str(t, key) ==
    LET o == table_get(t, key) IN IF o = << >> THEN << >> ELSE as_str(o[1])

\* the gate that builds a BibliographyConfig whenever both keys are there
bibliography_gate_ungated(t, c) ==
    LET bib_style == get_str(t, "bibliography-style")
        bib == get_str(t, "bibliography")
    IN  IF bib_style # << >> /\ bib # << >> THEN
            [ panic |-> << >>,
              value |-> << BibliographyConfig_new(bib[1], bib_style[1]) >> ]
        ELSE IF "citations" \in DOMAIN c /\ c["citations"] = "Transpile" THEN
            [ panic |-> << BibliographyMsg >>, value |-> << >> ]
        ELSE
            [ panic |-> << >>, value |-> << >> ]

\* `bibliography_config = if let Some(Transpile) = config.get("citations") ...`
bibliography_gate(t, c) ==
    IF "citations" \in DOMAIN c /\ c["citations"] = "Transpile" THEN
        LET bib_style == get_str(t, "bibliography-style")
            bib == get_str(t, "bibliography")
        IN  IF bib_style # << >> /\ bib # << >> THEN
                [ panic |-> << >>,
                  value |-> << BibliographyConfig_new(bib[1], bib_style[1]) >> ]
            ELSE
                [ panic |-> << BibliographyMsg >>, value |-> << >> ]
    ELSE
        [ panic |-> << >>, value |-> << >> ]

\* everything Pandoc::run does before book.for_each_mut; opt is the Option<Table>
configure(opt) ==
    IF opt = << >> THEN
        [ from |-> ParseStart.from, to |-> ParseStart.to, config |-> EmptyConfig,
          bibliography_config |-> << >>, panic |-> << NoTableMsg >> ]
    ELSE
        LET st == parse_settings(opt[1]) IN
        IF st.panic # << >> THEN
            [ from |-> st.from, to |-> st.to, config |-> st.config,
              bibliography_config |-> << >>, panic |-> st.panic ]
        ELSE
            LET gate == bibliography_gate(opt[1], st.config) IN
            [ from |-> st.from, to |-> st.to, config |-> st.config,
              bibliography_config |-> gate.value, panic |-> gate.panic ]

---------------------------------------------------------------------------
(* Text and bytes.  A chapter's content is a sequence of code points; the  *)
(* pipes carry bytes.  The modelled code points are below U+0800 and the   *)
(* modelled bytes are below 0xE0 or 0xFF, so every sequence is one or two  *)
(* bytes long or invalid.                                                  *)

RECURSIVE as_bytes(_)
\* str::as_bytes: the UTF-8 encoding
as_bytes(s) ==
    IF s = << >> THEN << >>
    ELSE LET c == Head(s) IN
         (IF c < 128 THEN << c >> ELSE << 192 + (c \div 64), 128 + (c % 64) >>)
             \o as_bytes(Tail(s))

RECURSIVE utf8_lossy_from(_, _)
utf8_lossy_from(b, i) ==
    IF i > Len(b) THEN << >>
    ELSE IF b[i] < 128 THEN << b[i] >> \o utf8_lossy_from(b, i + 1)
    ELSE IF /\ b[i] \in 194..223
            /\ i + 1 <= Len(b)
            /\ b[i + 1] \in 128..191
         THEN << (b[i] - 192) * 64 + (b[i + 1] - 128) >> \o utf8_lossy_from(b, i + 2)
    ELSE << 65533 >> \o utf8_lossy_from(b, i + 1)

\* String::from_utf8_lossy(..).to_string()
from_utf8_lossy(b) == utf8_lossy_from(b, 1)

---------------------------------------------------------------------------
(* The book: its items in the order for_each_mut visits them.              *)

Chapter(content) == [ kind |-> "Chapter", content |-> content ]

Separator == [ kind |-> "Separator", content |-> << >> ]

PartTitle(title) == [ kind |-> "PartTitle", content |-> title ]

\* the closure converting every item, chapter or not
is_chapter_any(item) == TRUE

\* `if let BookItem::Chapter(ref mut chapter) = *item`
is_chapter(item) == item.kind = "Chapter"

\* `process.arg(from.clone()).arg(to.clone())` and the five arguments added
\* when a BibliographyConfig is present
command_args(f, t, bc) ==
    IF bc # << >> THEN
        << f, t,
           "--csl=" \o bc[1].bibliography_style,
           "--bibliography=" \o bc[1].bibliography,
           "--metadata=link-citations",
           "--metadata=link-bibliography",
           "--citeproc" >>
    ELSE << f, t >>

\* the child process::Command::spawn returns: both pipes open, nothing moved
new_child(args) ==
    [ args |-> args, alive |-> TRUE, stdinOpen |-> TRUE, input |-> << >>,
      stdout |-> << >>, status |-> << >> ]

last == Len(procs)

---------------------------------------------------------------------------
(* The run.                                                                *)

panic(msg) ==
    /\ pc' = "panicked"
    /\ panicMsg' = << msg >>

\* Pandoc::run up to book.for_each_mut
Configure ==
    /\ pc = "run"
    /\ LET r == configure(table) IN
       /\ from' = r.from
       /\ to' = r.to
       /\ config' = r.config
       /\ bibliography_config' = r.bibliography_config
       /\ panicMsg' = r.panic
       /\ pc' = IF r.panic = << >> THEN "for_each" ELSE "panicked"
    /\ UNCHANGED << table, inBook, book, idx, procs, output, stdout, exitCode >>
    /\ UNCHANGED pipeVars

\* the closure of for_each_mut on an item that is not a chapter
VisitOther ==
    /\ pc = "for_each"
    /\ idx <= Len(book)
    /\ ~ is_chapter(book[idx])
    /\ idx' = idx + 1
    /\ UNCHANGED << table, inBook, book, pc, from, to, config, bibliography_config,
                    procs, output, panicMsg, stdout, exitCode >>
    /\ UNCHANGED pipeVars

\* the command is built and spawned; the spawn may fail
Spawn ==
    /\ pc = "for_each"
    /\ idx <= Len(book)
    /\ is_chapter(book[idx])
    /\ \E ok \in BOOLEAN :
        IF ok THEN
            /\ procs' = Append(procs, new_child(command_args(from, to, bibliography_config)))
            /\ pc' = "write"
            /\ UNCHANGED panicMsg
        ELSE
            /\ panic("failed to spawn process")
            /\ UNCHANGED procs
    /\ UNCHANGED << table, inBook, book, idx, from, to, config, bibliography_config,
                    output, stdout, exitCode >>
    /\ UNCHANGED pipeVars

\* write_all on the taken stdin, whole (the take of a piped stdin always
\* yields the handle): nothing is written for an empty content; a write to
\* a pipe whose reader is gone fails (EPIPE), and the handle is dropped by
\* the unwinding
WriteAll ==
    /\ pc = "write"
    /\ LET bytes == as_bytes(book[idx].content) IN
       IF bytes = << >> \/ procs[last].alive THEN
           /\ procs' = [ procs EXCEPT ![last].input = bytes ]
           /\ pc' = "close"
           /\ UNCHANGED panicMsg
       ELSE
           /\ procs' = [ procs EXCEPT ![last].stdinOpen = FALSE ]
           /\ panic("failed to write to pandoc stdin")
    /\ UNCHANGED << table, inBook, book, idx, from, to, config, bibliography_config,
                    output, stdout, exitCode >>
    /\ UNCHANGED pipeVars

\* the stdin handle kept in a variable: the statement ends with it still open
CloseStdin_kept ==
    /\ pc = "close"
    /\ pc' = "wait"
    /\ UNCHANGED << table, inBook, book, idx, from, to, config, bibliography_config,
                    procs, output, panicMsg, stdout, exitCode >>
    /\ UNCHANGED pipeVars

\* the temporary ChildStdin is dropped at the end of the statement
CloseStdin ==
    /\ pc = "close"
    /\ procs' = [ procs EXCEPT ![last].stdinOpen = FALSE ]
    /\ pc' = "wait"
    /\ UNCHANGED << table, inBook, book, idx, from, to, config, bibliography_config,
                    output, panicMsg, stdout, exitCode >>
    /\ UNCHANGED pipeVars

\* what the converter may print, as bytes: nothing, ASCII, a two-byte
\* sequence, and an invalid byte after a valid one
ConverterOutputs == { << >>, << 98 >>, << 195, 169 >>, << 98, 255 >> }

\* exit statuses of the converter: success and failure
ExitStatuses == { 0, 1 }

\* the converter terminates, at any time after it was spawned and with any
\* status, having printed `out`; its ends of both pipes close
ConvExit ==
    /\ pc \in { "write", "close", "wait" }
    /\ procs[last].alive
    /\ \E out \in ConverterOutputs, status \in ExitStatuses :
        procs' = [ procs EXCEPT ![last].alive = FALSE,
                                ![last].stdout = out,
                                ![last].status = << status >> ]
    /\ UNCHANGED << table, inBook, book, pc, idx, from, to, config, bibliography_config,
                    output, panicMsg, stdout, exitCode >>
    /\ UNCHANGED pipeVars

\* the wait with a nonzero exit status turned into a panic
WaitWithOutput_status_checked ==
    /\ pc = "wait"
    /\ ~ procs[last].alive
    /\ \E ok \in BOOLEAN :
        IF ok /\ procs[last].status = << 0 >> THEN
            /\ output' = procs[last].stdout
            /\ pc' = "assign"
            /\ UNCHANGED panicMsg
        ELSE
            /\ panic("failed to wait on pandoc")
            /\ UNCHANGED output
    /\ UNCHANGED << table, inBook, book, idx, from, to, config, bibliography_config,
                    procs, stdout, exitCode >>
    /\ UNCHANGED pipeVars

\* wait_with_output returns once the child has terminated and its stdout is
\* read to the end; reading may fail.  The exit status is not looked at.
WaitWithOutput ==
    /\ pc = "wait"
    /\ ~ procs[last].alive
    /\ \E ok \in BOOLEAN :
        IF ok THEN
            /\ output' = procs[last].stdout
            /\ pc' = "assign"
            /\ UNCHANGED panicMsg
        ELSE
            /\ panic("failed to wait on pandoc")
            /\ UNCHANGED output
    /\ UNCHANGED << table, inBook, book, idx, from, to, config, bibliography_config,
                    procs, stdout, exitCode >>
    /\ UNCHANGED pipeVars

\* chapter.content = String::from_utf8_lossy(output.stdout).to_string();
\* the closure returns and for_each_mut moves on
Assign ==
    /\ pc = "assign"
    /\ book' = [ book EXCEPT ![idx].content = from_utf8_lossy(output) ]
    /\ idx' = idx + 1
    /\ pc' = "for_each"
    /\ UNCHANGED << table, inBook, from, to, config, bibliography_config,
                    procs, output, panicMsg, stdout, exitCode >>
    /\ UNCHANGED pipeVars

\* for_each_mut has visited every item: Ok(book)
ReturnOk ==
    /\ pc = "for_each"
    /\ idx > Len(book)
    /\ pc' = "returned"
    /\ UNCHANGED << table, inBook, book, idx, from, to, config, bibliography_config,
                    procs, output, panicMsg, stdout, exitCode >>
    /\ UNCHANGED pipeVars

\* handle_preprocessing serialises the processed book to standard output
\* and main returns
WriteBook ==
    /\ pc = "returned"
    /\ stdout' = << book >>
    /\ exitCode' = << 0 >>
    /\ pc' = "exited"
    /\ UNCHANGED << table, inBook, book, idx, from, to, config, bibliography_config,
                    procs, output, panicMsg >>
    /\ UNCHANGED pipeVars

\* the error swallowed: the book is written and the process ends with status 0
Abort_as_success ==
    /\ pc = "panicked"
    /\ stdout' = << book >>
    /\ exitCode' = << 0 >>
    /\ pc' = "exited"
    /\ UNCHANGED << table, inBook, book, idx, from, to, config, bibliography_config,
                    procs, output, panicMsg >>
    /\ UNCHANGED pipeVars

\* a panic unwinds out of main: the process ends with status 101
Abort ==
    /\ pc = "panicked"
    /\ exitCode' = << 101 >>
    /\ pc' = "exited"
    /\ UNCHANGED << table, inBook, book, idx, from, to, config, bibliography_config,
                    procs, output, panicMsg, stdout >>
    /\ UNCHANGED pipeVars

---------------------------------------------------------------------------
(* The round trip byte by byte, through two pipes of PipeCap bytes each,   *)
(* with a converter that reads its stdin to the end, prints its output and *)
(* exits, and may print before it has read everything.  A write to a full  *)
(* pipe blocks, and so does a read from an empty pipe whose writer still   *)
(* holds it open.                                                          *)

\* what a converter of the byte-level model may print: nothing, one byte,
\* four bytes
ConverterPlans == { << >>, << 98 >>, << 195, 169, 195, 169 >> }

\* the subprocess starts running: it will print `plan`
ConvStart ==
    /\ pc \in { "write", "close", "wait" }
    /\ procs[last].alive
    /\ conv = << >>
    /\ \E plan \in ConverterPlans :
        conv' = << [ plan |-> plan, opos |-> 0, eof |-> FALSE, writing |-> FALSE ] >>
    /\ UNCHANGED runVars
    /\ UNCHANGED << wpos, stdinPipe, stdoutPipe, rbuf >>

\* the converter reads a byte of its stdin, or sees the end of input once
\* the pipe is empty and the adapter has closed it
ConvRead ==
    /\ conv # << >>
    /\ ~ conv[1].writing
    /\ ~ conv[1].eof
    /\ IF stdinPipe # << >> THEN
           /\ stdinPipe' = Tail(stdinPipe)
           /\ UNCHANGED conv
       ELSE
           /\ ~ procs[last].stdinOpen
           /\ conv' = << [ conv[1] EXCEPT !.eof = TRUE ] >>
           /\ UNCHANGED stdinPipe
    /\ UNCHANGED runVars
    /\ UNCHANGED << wpos, stdoutPipe, rbuf >>

\* the converter calls write on its stdout: it is in that call until the
\* pipe takes the byte
ConvBeginWrite ==
    /\ conv # << >>
    /\ ~ conv[1].writing
    /\ conv[1].opos < Len(conv[1].plan)
    /\ conv' = << [ conv[1] EXCEPT !.writing = TRUE ] >>
    /\ UNCHANGED runVars
    /\ UNCHANGED << wpos, stdinPipe, stdoutPipe, rbuf >>

\* the pipe has room: the write returns
ConvWrite ==
    /\ conv # << >>
    /\ conv[1].writing
    /\ Len(stdoutPipe) < PipeCap
    /\ stdoutPipe' = Append(stdoutPipe, conv[1].plan[conv[1].opos + 1])
    /\ conv' = << [ conv[1] EXCEPT !.opos = @ + 1, !.writing = FALSE ] >>
    /\ UNCHANGED runVars
    /\ UNCHANGED << wpos, stdinPipe, rbuf >>

\* the converter has read everything and printed everything: it exits
ConvFinish ==
    /\ conv # << >>
    /\ conv[1].eof
    /\ ~ conv[1].writing
    /\ conv[1].opos = Len(conv[1].plan)
    /\ \E status \in ExitStatuses :
        procs' = [ procs EXCEPT ![last].alive = FALSE,
                                ![last].stdout = conv[1].plan,
                                ![last].status = << status >> ]
    /\ conv' = << >>
    /\ UNCHANGED << table, inBook, book, pc, idx, from, to, config, bibliography_config,
                    output, panicMsg, stdout, exitCode >>
    /\ UNCHANGED << wpos, stdinPipe, stdoutPipe, rbuf >>

\* write_all, one byte at a time: it returns when every byte is in the
\* pipe, fails when the reader is gone, and otherwise waits for room
PipeWrite ==
    /\ pc = "write"
    /\ LET bytes == as_bytes(book[idx].content) IN
       IF wpos = Len(bytes) THEN
           /\ procs' = [ procs EXCEPT ![last].input = bytes ]
           /\ pc' = "close"
           /\ wpos' = 0
           /\ UNCHANGED << panicMsg, stdinPipe >>
       ELSE IF ~ procs[last].alive THEN
           /\ procs' = [ procs EXCEPT ![last].stdinOpen = FALSE ]
           /\ panic("failed to write to pandoc stdin")
           /\ UNCHANGED << wpos, stdinPipe >>
       ELSE
           /\ Len(stdinPipe) < PipeCap
           /\ stdinPipe' = Append(stdinPipe, bytes[wpos + 1])
           /\ wpos' = wpos + 1
           /\ UNCHANGED << procs, pc, panicMsg >>
    /\ UNCHANGED << table, inBook, book, idx, from, to, config, bibliography_config,
                    output, stdout, exitCode >>
    /\ UNCHANGED << stdoutPipe, rbuf, conv >>

\* wait_with_output reads a byte of the child's stdout
PipeRead ==
    /\ pc = "wait"
    /\ stdoutPipe # << >>
    /\ rbuf' = rbuf \o << Head(stdoutPipe) >>
    /\ stdoutPipe' = Tail(stdoutPipe)
    /\ UNCHANGED runVars
    /\ UNCHANGED << wpos, stdinPipe, conv >>

\* wait_with_output returns: the pipe is empty, and closed by the child's exit
PipeWaitDone ==
    /\ pc = "wait"
    /\ stdoutPipe = << >>
    /\ ~ procs[last].alive
    /\ output' = rbuf
    /\ rbuf' = << >>
    /\ pc' = "assign"
    /\ UNCHANGED << table, inBook, book, idx, from, to, config, bibliography_config,
                    procs, panicMsg, stdout, exitCode >>
    /\ UNCHANGED << wpos, stdinPipe, stdoutPipe, conv >>

---------------------------------------------------------------------------
(* Inputs.                                                                 *)

\* values a feature key is given: the two modes, two other strings, and
\* values that are not strings
FeatureValues ==
    { Str("preserve"), Str("transpile"), Str(""), Str("Transpile"),
      NonStr("Boolean"), NonStr("Integer") }

\* tables over the key set S with values from V
TablesOver(S, V) == [ S -> V ]

\* one table joined with another over disjoint keys
Join(a, b) == [ k \in (DOMAIN a) \cup (DOMAIN b) |-> IF k \in DOMAIN a THEN a[k] ELSE b[k] ]

\* the two bibliography keys, as strings
BothBibliographyKeys ==
    [ k \in { "bibliography", "bibliography-style" } |->
        IF k = "bibliography" THEN Str("refs.bib") ELSE Str("apa.csl") ]

\* tables that mention at most MaxMentioned of the fourteen features, with
\* or without the two bibliography keys
ParseTables ==
    LET feats == UNION { TablesOver(S, FeatureValues) :
                           S \in { S \in SUBSET FeatureNames : Cardinality(S) <= MaxMentioned } }
    IN  feats \cup { Join(f, BothBibliographyKeys) : f \in feats }

\* values a bibliography key is given
BibliographyValues(path) == { Str(path), NonStr("Integer") }

\* tables over citations, footnotes and the two bibliography keys
GateTables ==
    LET cit == UNION { TablesOver(S, FeatureValues) : S \in SUBSET { "citations" } }
        foot == UNION { TablesOver(S, { Str("transpile") }) : S \in SUBSET { "footnotes" } }
        bib == UNION { TablesOver(S, BibliographyValues("refs.bib")) :
                         S \in SUBSET { "bibliography" } }
        sty == UNION { TablesOver(S, BibliographyValues("apa.csl")) :
                         S \in SUBSET { "bibliography-style" } }
    IN  { Join(Join(c, f), Join(b, s)) : c \in cit, f \in foot, b \in bib, s \in sty }

\* three valid tables: nothing mentioned, two features, citations transpiled
BookTables ==
    { EmptyConfig,
      Join([ k \in { "emoji" } |-> Str("preserve") ],
           [ k \in { "footnotes" } |-> Str("transpile") ]),
      Join([ k \in { "citations" } |-> Str("transpile") ], BothBibliographyKeys) }

\* chapter contents: empty, ASCII, and a character two bytes long
Contents == { << >>, << 97 >>, << 233, 97 >> }

Items == { Chapter(c) : c \in Contents } \cup { Separator, PartTitle(<< 80 >>) }

RECURSIVE SeqsUpTo(_, _)
SeqsUpTo(S, n) ==
    IF n = 0 THEN { << >> }
    ELSE LET shorter == SeqsUpTo(S, n - 1) IN
         shorter \cup { Append(q, x) : q \in { r \in shorter : Len(r) = n - 1 }, x \in S }

\* books of at most MaxItems items
Books == SeqsUpTo(Items, MaxItems)

\* one book with two chapters around a separator
GateBooks == { << Chapter(<< 97 >>), Separator, Chapter(<< 233, 97 >>) >> }

\* the state when Pandoc::run has initialised its locals (lines 126-132)
InitWith(tables, books) ==
    /\ table \in tables
    /\ inBook \in books
    /\ book = inBook
    /\ pc = "run"
    /\ idx = 1
    /\ from = ParseStart.from
    /\ to = ParseStart.to
    /\ config = EmptyConfig
    /\ bibliography_config = << >>
    /\ procs = << >>
    /\ output = << >>
    /\ panicMsg = << >>
    /\ stdout = << >>
    /\ exitCode = << >>
    /\ wpos = 0
    /\ stdinPipe = << >>
    /\ stdoutPipe = << >>
    /\ rbuf = << >>
    /\ conv = << >>

OptionsOf(S) == { << >> } \cup { << x >> : x \in S }

\* any config table over citations and the bibliography keys, one book
Init == InitWith(OptionsOf(GateTables), GateBooks)

Next ==
    \/ Configure
    \/ VisitOther
    \/ Spawn
    \/ WriteAll
    \/ CloseStdin
    \/ ConvExit
    \/ WaitWithOutput
    \/ Assign
    \/ ReturnOk
    \/ WriteBook
    \/ Abort

Spec == Init /\ [][Next]_vars

\* any table of at most MaxMentioned features; the run up to for_each_mut
InitParse == InitWith(OptionsOf(ParseTables), { << >> })

NextParse ==
    \/ Configure
    \/ Abort

SpecParse == InitParse /\ [][NextParse]_vars

\* a valid table and any book of at most MaxItems items
InitBook == InitWith(OptionsOf(BookTables) \ { << >> }, Books)

SpecBook == InitBook /\ [][Next]_vars

\* chapters of four bytes, of one byte and of none, under the bare configuration
PipeBooks ==
    { << Chapter(<< 233, 233 >>) >>, << Chapter(<< 97 >>), Separator, Chapter(<< >>) >> }

InitPipe == InitWith({ << EmptyConfig >> }, PipeBooks)

NextPipe ==
    \/ Configure
    \/ VisitOther
    \/ Spawn
    \/ PipeWrite
    \/ CloseStdin
    \/ ConvStart
    \/ ConvRead
    \/ ConvBeginWrite
    \/ ConvWrite
    \/ ConvFinish
    \/ PipeRead
    \/ PipeWaitDone
    \/ Assign
    \/ ReturnOk
    \/ WriteBook
    \/ Abort

SpecPipe == InitPipe /\ [][NextPipe]_vars

---------------------------------------------------------------------------

AdapterBlockedWriting ==
    /\ pc = "write"
    /\ wpos < Len(as_bytes(book[idx].content))
    /\ procs[last].alive
    /\ Len(stdinPipe) = PipeCap

ConverterBlockedWriting ==
    /\ conv # << >>
    /\ conv[1].writing
    /\ Len(stdoutPipe) = PipeCap

\* C10: with a converter that reads its input to the end, prints and exits
\* (and may print before it has read everything), and pipes of bounded
\* capacity, the adapter is never blocked writing to a full stdin pipe while
\* the converter is blocked writing to a full stdout pipe.
C10_NoPipeDeadlock == ~ (AdapterBlockedWriting /\ ConverterBlockedWriting)

---------------------------------------------------------------------------
(* What the claims speak of.                                               *)

\* the table of the run, when there is one
theTable == table[1]

\* Configure has run
Configured == pc # "run"

\* the features a table mentions
Mentioned(t) == FeatureNames \cap DOMAIN t

RECURSIVE Fragments(_, _, _)
\* one fragment per mentioned feature from position i of the enumeration
\* order on: "+name" for `from`; for `to`, "-name" for the string
\* "transpile" and "+name" otherwise
Fragments(t, i, isTo) ==
    IF i > Len(FeatureOrder) THEN ""
    ELSE LET name == FeatureOrder[i] IN
         (IF name \notin DOMAIN t THEN ""
          ELSE IF isTo /\ t[name] = Str("transpile") THEN "-" \o name
          ELSE "+" \o name) \o Fragments(t, i + 1, isTo)

ExpectedFrom(t) == "--from=markdown_strict" \o Fragments(t, 1, FALSE)

ExpectedTo(t) == "--to=markdown_strict" \o Fragments(t, 1, TRUE)

IsMode(v) == v = Str("preserve") \/ v = Str("transpile")

\* C1: for every table whose mentioned features all carry a mode, `from` is
\* the base string followed by "+name" per mentioned feature and `to` is the
\* base string followed by "+name" (preserve) or "-name" (transpile) per
\* mentioned feature, in the enumeration order that ends with
\* markdown_in_html_blocks, link_attributes; an empty table gives the bases.
C1_CompiledFlags ==
    (Configured /\ table # << >> /\ \A k \in Mentioned(theTable) : IsMode(theTable[k]))
    => /\ from = ExpectedFrom(theTable)
       /\ to = ExpectedTo(theTable)
       /\ FeatureOrder[1] = "backtick_code_blocks"
       /\ FeatureOrder[13] = "markdown_in_html_blocks"
       /\ FeatureOrder[14] = "link_attributes"
       /\ (Mentioned(theTable) = {} =>
               from = "--from=markdown_strict" /\ to = "--to=markdown_strict")

C1_Witness ==
    /\ pc = "for_each"
    /\ table # << >>
    /\ Mentioned(theTable) = { "mark", "link_attributes" }
    /\ from = "--from=markdown_strict+mark+link_attributes"
    /\ to = "--to=markdown_strict+mark-link_attributes"

\* a value the parser rejects: a string that is neither mode
IsOtherString(v) == v.kind = "String" /\ ~ IsMode(v)

Rejected == pc \in { "panicked", "exited" } /\ exitCode # << 0 >>

\* C2 as stated: every feature present with a value other than the two mode
\* strings, non-strings and the empty string included, is rejected with a
\* fatal error that names that feature, and no chapter is converted.
C2_Original ==
    (Configured /\ table # << >>)
    => \A k \in Mentioned(theTable) :
           ~ IsMode(theTable[k])
           => /\ Rejected
              /\ panicMsg = << InvalidSettingMsg(k) >>
              /\ procs = << >>

\* the first feature, in enumeration order, that carries an other string
FirstOtherString(t) ==
    FeatureOrder[CHOOSE i \in 1..Len(FeatureOrder) :
        /\ FeatureOrder[i] \in DOMAIN t
        /\ IsOtherString(t[FeatureOrder[i]])
        /\ \A j \in 1..(i - 1) :
              FeatureOrder[j] \in DOMAIN t => ~ IsOtherString(t[FeatureOrder[j]])]

\* C2 amended: a table in which some feature carries a string other than
\* "preserve" and "transpile" (the empty string included) is rejected with a
\* fatal error that names the first such feature in enumeration order, and
\* no chapter is converted; a value that is not a string is not rejected.
C2_Amended ==
    (Configured /\ table # << >>)
    => IF \E k \in Mentioned(theTable) : IsOtherString(theTable[k])
       THEN /\ Rejected
            /\ panicMsg = << InvalidSettingMsg(FirstOtherString(theTable)) >>
            /\ procs = << >>
            /\ stdout = << >>
       ELSE \A k \in Mentioned(theTable) : panicMsg # << InvalidSettingMsg(k) >>

C2_Witness ==
    /\ pc = "exited"
    /\ table # << >>
    /\ Mentioned(theTable) = { "emoji", "mark" }
    /\ theTable["emoji"] = Str("")
    /\ theTable["mark"] = Str("Transpile")
    /\ panicMsg = << InvalidSettingMsg("emoji") >>
    /\ exitCode = << 101 >>

\* the mode each mentioned feature resolves to when nothing is rejected
ExpectedConfig(t) ==
    [ k \in Mentioned(t) |-> IF t[k] = Str("transpile") THEN "Transpile" ELSE "Preserve" ]

NoSettingError == panicMsg = << >> \/ panicMsg = << BibliographyMsg >>

\* C3 as stated: a feature present with "preserve", with the empty string or
\* with a value that is not a string resolves to Preserve without an error
\* and contributes "+name" to both strings (the other features carrying a
\* mode or such a value).
C3_Original ==
    (/\ Configured
     /\ table # << >>
     /\ \A k \in Mentioned(theTable) :
            IsMode(theTable[k]) \/ theTable[k] = Str("") \/ theTable[k].kind # "String")
    => /\ NoSettingError
       /\ config = ExpectedConfig(theTable)
       /\ from = ExpectedFrom(theTable)
       /\ to = ExpectedTo(theTable)

\* C3 amended: a feature present with "preserve" or with a value that is not
\* a string resolves to Preserve without an error and contributes "+name" to
\* both strings (the other features carrying a mode or such a value); the
\* empty string is a string and is rejected.
C3_Amended ==
    (/\ Configured
     /\ table # << >>
     /\ \A k \in Mentioned(theTable) : IsMode(theTable[k]) \/ theTable[k].kind # "String")
    => /\ NoSettingError
       /\ config = ExpectedConfig(theTable)
       /\ from = ExpectedFrom(theTable)
       /\ to = ExpectedTo(theTable)

C3_Witness ==
    /\ pc = "for_each"
    /\ table # << >>
    /\ Mentioned(theTable) = { "emoji", "footnotes" }
    /\ theTable["emoji"] = NonStr("Boolean")
    /\ theTable["footnotes"] = Str("preserve")
    /\ config = [ k \in { "emoji", "footnotes" } |-> "Preserve" ]
    /\ from = "--from=markdown_strict+emoji+footnotes"
    /\ to = "--to=markdown_strict+emoji+footnotes"

---------------------------------------------------------------------------

IsStringAt(t, key) == key \in DOMAIN t /\ t[key].kind = "String"

\* no feature of the table is rejected, and citations carries "transpile"
CitationsTranspile ==
    /\ table # << >>
    /\ \A k \in Mentioned(theTable) : ~ IsOtherString(theTable[k])
    /\ "citations" \in DOMAIN theTable
    /\ theTable["citations"] = Str("transpile")

\* C4: with citations resolved to Transpile, a table that lacks one of
\* "bibliography" and "bibliography-style" as a string fails fatally with no
\* subprocess spawned; with both, the BibliographyConfig holds the two values
\* in their own fields and every subprocess gets --csl=<bibliography-style>
\* and --bibliography=<bibliography>.
C4_BibliographyGate ==
    (Configured /\ CitationsTranspile)
    => IF IsStringAt(theTable, "bibliography") /\ IsStringAt(theTable, "bibliography-style")
       THEN /\ bibliography_config =
                   << [ bibliography |-> theTable["bibliography"].str,
                        bibliography_style |-> theTable["bibliography-style"].str ] >>
            /\ \A k \in 1..Len(procs) :
                   /\ Len(procs[k].args) = 7
                   /\ procs[k].args[3] = "--csl=" \o theTable["bibliography-style"].str
                   /\ procs[k].args[4] = "--bibliography=" \o theTable["bibliography"].str
       ELSE /\ Rejected
            /\ panicMsg = << BibliographyMsg >>
            /\ procs = << >>

C4_Witness ==
    /\ CitationsTranspile
    /\ Len(procs) = 2
    /\ procs[2].args[3] = "--csl=apa.csl"
    /\ procs[2].args[4] = "--bibliography=refs.bib"
    /\ pc = "exited"
    /\ exitCode = << 0 >>

\* citations is not mentioned, or carries a value that resolves to Preserve
CitationsPreserved ==
    \/ table = << >>
    \/ "citations" \notin DOMAIN theTable
    \/ theTable["citations"] = Str("preserve")
    \/ theTable["citations"].kind # "String"

CitationArguments ==
    { "--metadata=link-citations", "--metadata=link-bibliography", "--citeproc" }
        \cup { "--csl=" \o x : x \in { "apa.csl", "refs.bib" } }
        \cup { "--bibliography=" \o x : x \in { "apa.csl", "refs.bib" } }

\* C5: with citations resolved to Preserve or not mentioned, whatever the
\* bibliography keys hold, no BibliographyConfig is produced, no error is
\* raised about them, and every subprocess gets exactly [from, to].
C5_NoBibliography ==
    (Configured /\ CitationsPreserved)
    => /\ bibliography_config = << >>
       /\ panicMsg # << BibliographyMsg >>
       /\ \A k \in 1..Len(procs) :
              /\ procs[k].args = << from, to >>
              /\ \A a \in 1..Len(procs[k].args) : procs[k].args[a] \notin CitationArguments

C5_Witness ==
    /\ table # << >>
    /\ "citations" \in DOMAIN theTable
    /\ theTable["citations"] = Str("preserve")
    /\ IsStringAt(theTable, "bibliography")
    /\ IsStringAt(theTable, "bibliography-style")
    /\ Len(procs) = 2
    /\ procs[2].args = << "--from=markdown_strict+citations", "--to=markdown_strict+citations" >>
    /\ pc = "exited"
    /\ exitCode = << 0 >>

\* the positions of the chapters of a book, in traversal order
ChapterPositions(b) ==
    SelectSeq([ i \in 1..Len(b) |-> i ], LAMBDA i : b[i].kind = "Chapter")

\* the run returned Ok(book): nothing failed
Returned == pc = "returned" \/ (pc = "exited" /\ exitCode = << 0 >>)

\* C6: when the run returns, the converter was invoked once per chapter of
\* the input book, in traversal order, each time with the arguments computed
\* from the table before the first chapter; each chapter holds the decoded
\* output of the invocation that was given its own content; every other node
\* is unchanged; and the number and order of the nodes are those of the input.
C6_ChaptersConverted ==
    /\ Len(book) = Len(inBook)
    /\ \A i \in 1..Len(book) : book[i].kind = inBook[i].kind
    /\ \A i \in 1..Len(book) : inBook[i].kind # "Chapter" => book[i] = inBook[i]
    /\ Returned
       => LET pos == ChapterPositions(inBook)
              r == configure(table)
          IN  /\ Len(procs) = Len(pos)
              /\ \A k \in 1..Len(pos) :
                     /\ procs[k].args = command_args(r.from, r.to, r.bibliography_config)
                     /\ procs[k].input = as_bytes(inBook[pos[k]].content)
                     /\ book[pos[k]].content = from_utf8_lossy(procs[k].stdout)

C6_Witness ==
    /\ pc = "returned"
    /\ Len(inBook) = 2
    /\ inBook[1] = PartTitle(<< 80 >>)
    /\ inBook[2] = Chapter(<< 233, 97 >>)
    /\ Len(procs) = 1
    /\ procs[1].input = << 195, 169, 97 >>
    /\ procs[1].stdout = << 98, 255 >>
    /\ book = << PartTitle(<< 80 >>), Chapter(<< 98, 65533 >>) >>

ConfigErrors ==
    { << NoTableMsg >>, << BibliographyMsg >> }
        \cup { << InvalidSettingMsg(k) >> : k \in FeatureNames }

IoErrors ==
    { << "failed to spawn process" >>, << "failed to write to pandoc stdin" >>,
      << "failed to wait on pandoc" >> }

\* C7: once a fatal error has occurred the run is over: it never writes the
\* book to standard output, it ends with a failure status, no subprocess is
\* spawned afterwards, and after a configuration error none was spawned at all.
C7_FatalAborts ==
    /\ [](panicMsg # << >>
          => /\ pc \in { "panicked", "exited" }
             /\ stdout = << >>
             /\ (pc = "exited" => exitCode # << >> /\ exitCode # << 0 >>)
             /\ panicMsg \in ConfigErrors \cup IoErrors
             /\ (panicMsg \in ConfigErrors => procs = << >>))
    /\ [][panicMsg # << >> => (procs' = procs /\ panicMsg' = panicMsg /\ stdout' = << >>)]_vars

C7_Witness ==
    /\ pc = "exited"
    /\ panicMsg = << "failed to write to pandoc stdin" >>
    /\ Len(procs) = 2
    /\ exitCode = << 101 >>
    /\ stdout = << >>

AliveCount == Cardinality({ k \in 1..Len(procs) : procs[k].alive })

\* C8: per chapter the adapter spawns, writes the whole content, closes the
\* stdin, waits for the subprocess to end, and assigns: the stdin is closed
\* whenever the adapter waits, the next subprocess is spawned only when every
\* earlier one has ended and its chapter is assigned, and at most one
\* subprocess is alive.
C8_SequentialRoundTrip ==
    /\ AliveCount <= 1
    /\ \A k \in 1..(Len(procs) - 1) : ~ procs[k].alive /\ ~ procs[k].stdinOpen
    /\ pc = "write" => procs[last].stdinOpen /\ procs[last].input = << >>
    /\ pc = "close" =>
           procs[last].stdinOpen /\ procs[last].input = as_bytes(book[idx].content)
    /\ pc = "wait" =>
           ~ procs[last].stdinOpen /\ procs[last].input = as_bytes(book[idx].content)
    /\ pc = "assign" =>
           /\ ~ procs[last].stdinOpen
           /\ ~ procs[last].alive
           /\ output = procs[last].stdout
    /\ pc \in { "for_each", "returned" } =>
           /\ AliveCount = 0
           /\ \A k \in 1..Len(procs) : ~ procs[k].stdinOpen
           /\ LET pos == ChapterPositions(inBook) IN
              \A k \in 1..Len(procs) :
                  /\ pos[k] < idx
                  /\ book[pos[k]].content = from_utf8_lossy(procs[k].stdout)

C8_Witness ==
    /\ pc = "wait"
    /\ Len(procs) = 2
    /\ procs[2].alive
    /\ ~ procs[2].stdinOpen
    /\ procs[2].input = << 97 >>

\* C9: a nonzero exit status is not an error: the wait on an exited
\* subprocess can always return its output whatever the status, the chapter
\* then holds that output, the later chapters are converted, and the run
\* returns the book.
C9_ExitStatusIgnored ==
    /\ (pc = "wait" /\ ~ procs[last].alive)
       => ENABLED (WaitWithOutput /\ pc' = "assign" /\ output' = procs[last].stdout)
    /\ Returned
       => LET pos == ChapterPositions(inBook) IN
          /\ Len(procs) = Len(pos)
          /\ \A k \in 1..Len(pos) :
                 /\ procs[k].status \in { << 0 >>, << 1 >> }
                 /\ book[pos[k]].content = from_utf8_lossy(procs[k].stdout)
    /\ pc = "exited" /\ exitCode = << 0 >> => stdout = << book >> /\ panicMsg = << >>

C9_Witness ==
    /\ pc = "exited"
    /\ exitCode = << 0 >>
    /\ Len(procs) = 2
    /\ procs[1].status = << 1 >>
    /\ procs[1].stdout = << >>
    /\ procs[2].status = << 0 >>
    /\ procs[2].stdout = << 98 >>
    /\ stdout = << << Chapter(<< >>), Chapter(<< 98 >>) >> >>

=============================================================================
